---- MODULE Spec2Model ----
(***************************************************************************)
(* Dependency Analysis Service (src/dependency-analysis-service/main.py).  *)
(*                                                                         *)
(* The service keeps an in-memory Job Store (jobs_storage).  POST /analyze *)
(* inserts a record and schedules the background task run_analysis;        *)
(* GET /status/{job_id} reads the store.  run_analysis is a coroutine that *)
(* contains no suspension point: requests.get and subprocess.run are       *)
(* blocking calls and neither clone_repository nor                         *)
(* analyze_gradle_dependencies awaits anything, so from its first          *)
(* statement to the end of its finally block the task holds the event      *)
(* loop.  The model keeps that scheduling: `running' is the task that      *)
(* holds the loop, and the request handlers run only while it is empty.    *)
(* Inside the task every statement that touches the record, the scratch    *)
(* directory or an external service is a step of its own.                  *)
(*                                                                         *)
(* Environment assumptions: uuid4 returns an identifier that is not in use,*)
(* two reads of time.time() inside one task do not go backwards, and       *)
(* shutil.rmtree succeeds.                                                 *)
(*                                                                         *)
(* The build tool's output (stdout) and the outcomes each configuration    *)
(* can have (tool_outcomes) belong to the environment and are fixed by the *)
(* initial state.  The files of a fetched repository (content) come from   *)
(* the archive that was extracted.  ComponentSpec calls the File Scanner,  *)
(* the Tree Parser, the Static Declaration Scanner and the Match Merger on *)
(* their own, on bounded inputs (call, ret).                               *)
(***************************************************************************)
EXTENDS Integers, Sequences, FiniteSets, TLC

\* ---------------------------------------------------------------- bounds
\* Number of POST /analyze requests accepted in a behaviour.
MaxJobs == 2
\* Largest reading of the wall clock.
MaxClock == 1
\* Longest list of matches given to the Match Merger on its own.
MaxMatches == 3
\* Most lines of a tool output given to the Tree Parser on its own.
MaxLines == 3
\* Most descriptor files given to the Static Declaration Scanner on its own.
MaxFiles == 3

JobIds == 1..MaxJobs
Clock == 0..MaxClock

\* Request inputs (AnalysisRequest).
Repositories == {"prasadrg98/sample"}
DependencyNames == {"httpclient"}

\* ------------------------------------------------------------ data model
\* Optional[T]: None is the empty sequence, a value v is <<v>>.
None == <<>>
Some(v) == <<v>>

\* AnalysisResult as start_analysis builds it.
AnalysisResult(repository, dependency_name, job_id) ==
  [ repository |-> repository,
    dependency_name |-> dependency_name,
    job_id |-> job_id,
    status |-> "processing",
    gradle_files_found |-> <<>>,
    matches |-> <<>>,
    error |-> None,
    analysis_time_seconds |-> None ]

\* DependencyMatch.
DependencyMatch(file_path, current_version, parent_dependency, parent_version, dependency_path, line_context) ==
  [ file_path |-> file_path,
    current_version |-> current_version,
    parent_dependency |-> parent_dependency,
    parent_version |-> parent_version,
    dependency_path |-> dependency_path,
    line_context |-> line_context ]

Range(seq) == { seq[i] : i \in 1..Len(seq) }

\* The three configurations the Build-Tool Invoker runs, in order.
configurations == <<"compileClasspath", "runtimeClasspath", "testCompileClasspath">>

\* Outcomes of one subprocess.run of the build tool: exit code 0, non-zero
\* exit code, TimeoutExpired, FileNotFoundError.
ToolOutcomes == {"ok", "nonzero", "timeout", "notfound"}

\* Outcomes of one requests.get of the zipball: status 200, another status,
\* a network error (requests raises).
HttpOutcomes == {"200", "404", "neterror"}

\* Messages of the exceptions that reach run_analysis.
HttpErrorMessage(code) == "Failed to download repository: HTTP " \o code
NetworkErrorMessage == "ConnectionError"
BadZipMessage == "File is not a zip file"
SetupErrorMessage == "PermissionError"
NoGradleMessage == "No Gradle files found in repository"

\* What a successful `gradle dependencies --configuration <c>' prints
\* (result.stdout): a tree that does not name the target, and one that does.
PlainTree ==
  "compileClasspath - Compile classpath for source set 'main'.\n+--- org.slf4j:slf4j-api:1.7.36\n"
TargetTree ==
  "------------------------------------------------------------\n\n+--- org.apache.httpcomponents:httpclient:4.5.13\n\\--- org.slf4j:slf4j-api:1.7.36\n"
ToolOutputs == { PlainTree, TargetTree }

\* The files of a repository, as paths of names below its root: one without
\* descriptor files, one with a descriptor in its root, one whose descriptors
\* are all below build output or a hidden directory, and a multi-module one.
RepoArchives ==
  { { << "README.md" >> },
    { << "build.gradle" >>, << "README.md" >> },
    { << "build", "generated.gradle" >>, << ".github", "gradle.properties" >> },
    { << "build.gradle" >>, << "app", "build.gradle.kts" >>,
      << "app", "build", "tmp.gradle" >> } }

\* The folder GitHub puts around the files of a zipball: owner-repo-commit.
Wrapper == "prasadrg98-sample-0a1b2c3"

VARIABLES
  jobs_storage,   \* job_id -> AnalysisResult
  pc,             \* position of each job's background task
  running,        \* the task that holds the event loop ({} when idle)
  response,       \* answer of the handler that ran last (until a task starts)
  start_time,     \* run_analysis local
  repo_dir,       \* run_analysis local: None or <<dir>>
  gradle_files,   \* run_analysis local: absolute paths
  matches,        \* analyze_gradle_dependencies local
  config,         \* index of the configuration the loop is at
  exc,            \* the exception in flight: None or <<message>>
  http_status,    \* clone_repository local: status of the last response
  requests,       \* clone_repository: the downloads made in the current call, <<branch, outcome>>
  file_matches,   \* analyze_gradle_dependencies local (the Static Declaration Scanner's result)
  fs,             \* scratch directories that exist on disk
  content,        \* scratch directory -> the files below it
  cleanup_calls,  \* history: calls of cleanup_repository per job
  invoked,        \* history: configurations the build tool was run for
  fetch_result,   \* history: "pending", "ok", or the message clone_repository raised
  files_scanned,  \* history: None, or <<number of files the File Scanner returned>>
  archive,        \* history: None, or <<the files of the archive that was extracted>>
  stdout,         \* environment: what a successful `gradle dependencies' prints in a fetched repository
  tool_outcomes,  \* environment: configuration -> the outcomes its subprocess.run can have
  call,           \* a component called on its own: the function and its arguments
  ret             \* what that call returned

vars == << jobs_storage, pc, running, response, start_time, repo_dir,
           gradle_files, matches, config, exc, http_status, requests,
           file_matches, fs, content, cleanup_calls, invoked, fetch_result,
           files_scanned, archive, stdout, tool_outcomes, call, ret >>

locals == << start_time, repo_dir, gradle_files, matches, config, exc,
             http_status, requests, file_matches >>

\* What no step of the service changes.
world == << stdout, tool_outcomes, call, ret >>

history == << cleanup_calls, invoked, fetch_result, files_scanned, archive >>

NoResponse == [ kind |-> "none" ]

\* repo_dir without the random suffix: one directory per repository.
RepoDirOf_PerRepository(j) == << "/tmp/gradle_analysis", jobs_storage[j].repository, 1 >>

\* repo_dir = work_dir/repo_<repository with '/' replaced>_<uuid4()[:8]>.
\* The random suffix is modelled by the task's own identifier.
RepoDirOf(j) == << "/tmp/gradle_analysis", jobs_storage[j].repository, j >>

RepoDirs == { << "/tmp/gradle_analysis", r, j >> : r \in Repositories, j \in JobIds }

\* os.path.join(root, file) and os.path.relpath(path, repo_dir) for a file
\* below repo_dir.
JoinPath(dir, rel) == << dir, rel >>
RelPath(path, dir) == path[2]

RECURSIVE MapRelPath(_, _)
MapRelPath(files, dir) ==
  IF files = <<>> THEN <<>>
  ELSE << RelPath(Head(files), dir) >> \o MapRelPath(Tail(files), dir)

RECURSIVE MapJoinPath(_, _)
MapJoinPath(dir, rels) ==
  IF rels = <<>> THEN <<>>
  ELSE << JoinPath(dir, Head(rels)) >> \o MapJoinPath(dir, Tail(rels))

\* The service after start-up: no job.
StartState ==
  /\ jobs_storage = << >>
  /\ pc = [j \in JobIds |-> "none"]
  /\ running = {}
  /\ response = NoResponse
  /\ start_time = [j \in JobIds |-> 0]
  /\ repo_dir = [j \in JobIds |-> None]
  /\ gradle_files = [j \in JobIds |-> <<>>]
  /\ matches = [j \in JobIds |-> <<>>]
  /\ config = [j \in JobIds |-> 1]
  /\ exc = [j \in JobIds |-> None]
  /\ http_status = [j \in JobIds |-> "none"]
  /\ requests = [j \in JobIds |-> <<>>]
  /\ file_matches = [j \in JobIds |-> <<>>]
  /\ fs = {}
  /\ content = [dir \in RepoDirs |-> {}]
  /\ cleanup_calls = [j \in JobIds |-> 0]
  /\ invoked = [j \in JobIds |-> <<>>]
  /\ fetch_result = [j \in JobIds |-> "pending"]
  /\ files_scanned = [j \in JobIds |-> None]
  /\ archive = [j \in JobIds |-> None]

NoCall == [ op |-> "none" ]

\* The service in front of repositories whose dependency tree does not name
\* the target.
Init ==
  /\ StartState
  /\ stdout = PlainTree
  /\ tool_outcomes = [c \in Range(configurations) |-> ToolOutcomes]
  /\ call = NoCall
  /\ ret = None

\* ------------------------------------------------------- request handlers

\* start_analysis as it would be if the record were only created by the
\* background task: the handler answers without inserting.
start_analysis_NoInsert(repository, dependency_name) ==
  /\ running = {}
  /\ Cardinality({j \in JobIds : pc[j] # "none"}) < MaxJobs
  /\ LET job_id == Cardinality({j \in JobIds : pc[j] # "none"}) + 1
     IN /\ pc' = [pc EXCEPT ![job_id] = "scheduled"]
        /\ response' = [ kind |-> "analyze", code |-> 200, job_id |-> job_id,
                         status |-> "processing" ]
  /\ UNCHANGED << jobs_storage, running, locals, fs, content, history,
                  world >>

\* start_analysis with an eviction policy: inserting a record drops the
\* records of the jobs that have ended.
start_analysis_Evict(repository, dependency_name) ==
  /\ running = {}
  /\ Cardinality({j \in JobIds : pc[j] # "none"}) < MaxJobs
  /\ LET job_id == Cardinality({j \in JobIds : pc[j] # "none"}) + 1
         result == AnalysisResult(repository, dependency_name, job_id)
         kept == {k \in DOMAIN jobs_storage : jobs_storage[k].status = "processing"}
     IN /\ jobs_storage' = [k \in kept \cup {job_id} |->
                              IF k = job_id THEN result ELSE jobs_storage[k]]
        /\ pc' = [pc EXCEPT ![job_id] = "scheduled"]
        /\ response' = [ kind |-> "analyze", code |-> 200, job_id |-> job_id,
                         status |-> "processing" ]
  /\ UNCHANGED << running, locals, fs, content, history,
                  world >>

\* POST /analyze.
start_analysis(repository, dependency_name) ==
  /\ running = {}
  /\ Cardinality(DOMAIN jobs_storage) < MaxJobs
  /\ LET job_id == Cardinality(DOMAIN jobs_storage) + 1
         result == AnalysisResult(repository, dependency_name, job_id)
     IN /\ jobs_storage' = [k \in DOMAIN jobs_storage \cup {job_id} |->
                              IF k = job_id THEN result ELSE jobs_storage[k]]
        /\ pc' = [pc EXCEPT ![job_id] = "scheduled"]
        /\ response' = [ kind |-> "analyze", code |-> 200, job_id |-> job_id,
                         status |-> "processing" ]
  /\ UNCHANGED << running, locals, fs, content, history,
                  world >>

\* get_analysis_status answering "not found" until the job has ended.
get_analysis_status_HideProcessing(job_id) ==
  /\ running = {}
  /\ response' = IF \/ job_id \notin DOMAIN jobs_storage
                    \/ jobs_storage[job_id].status = "processing"
                 THEN [ kind |-> "status", code |-> 404, job_id |-> job_id,
                        detail |-> "Job not found" ]
                 ELSE [ kind |-> "status", code |-> 200, job_id |-> job_id,
                        body |-> jobs_storage[job_id] ]
  /\ UNCHANGED << jobs_storage, pc, running, locals, fs, content, history,
                  world >>

\* GET /status/{job_id}.
get_analysis_status(job_id) ==
  /\ running = {}
  /\ response' = IF job_id \notin DOMAIN jobs_storage
                 THEN [ kind |-> "status", code |-> 404, job_id |-> job_id,
                        detail |-> "Job not found" ]
                 ELSE [ kind |-> "status", code |-> 200, job_id |-> job_id,
                        body |-> jobs_storage[job_id] ]
  /\ UNCHANGED << jobs_storage, pc, running, locals, fs, content, history,
                  world >>

\* ------------------------------------------------------- text operations
\* Texts are strings; Head, Tail, SubSeq, Len and \o work on their characters.

Whitespace == {" ", "\t", "\r", "\n"}
Quotes == {"'", "\""}

CharAt(s, i) == SubSeq(s, i, i)

Min(S) == CHOOSE n \in S : \A m \in S : n <= m
Max(S) == CHOOSE n \in S : \A m \in S : n >= m

\* The first position from i on whose character is in chars (stop = TRUE) or
\* is not in chars (stop = FALSE); Len(s) + 1 when there is none.
Scan(s, i, chars, stop) ==
  Min({ k \in i..Len(s) : (CharAt(s, k) \in chars) = stop } \cup { Len(s) + 1 })

\* str.lstrip(), str.rstrip(), str.strip().
lstrip(s) == SubSeq(s, Scan(s, 1, Whitespace, FALSE), Len(s))

rstrip(s) ==
  SubSeq(s, 1, Max({ k \in 1..Len(s) : CharAt(s, k) \notin Whitespace } \cup {0}))

strip(s) == lstrip(rstrip(s))

\* str.startswith(prefix).
startswith(s, prefix) ==
  Len(s) >= Len(prefix) /\ SubSeq(s, 1, Len(prefix)) = prefix

\* str.lower(), for the ASCII letters.
LowerOf ==
  [ A |-> "a", B |-> "b", C |-> "c", D |-> "d", E |-> "e", F |-> "f", G |-> "g",
    H |-> "h", I |-> "i", J |-> "j", K |-> "k", L |-> "l", M |-> "m", N |-> "n",
    O |-> "o", P |-> "p", Q |-> "q", R |-> "r", S |-> "s", T |-> "t", U |-> "u",
    V |-> "v", W |-> "w", X |-> "x", Y |-> "y", Z |-> "z" ]

LowerChar(c) == IF c \in DOMAIN LowerOf THEN LowerOf[c] ELSE c

\* (The text is halved at each call, which keeps the evaluation shallow.)
RECURSIVE lower(_)
lower(s) ==
  IF Len(s) = 0 THEN ""
  ELSE IF Len(s) = 1 THEN LowerChar(s)
  ELSE lower(SubSeq(s, 1, Len(s) \div 2)) \o lower(SubSeq(s, Len(s) \div 2 + 1, Len(s)))

\* `sub in s'.
contains(sub, s) ==
  \E i \in 0..(Len(s) - Len(sub)) : SubSeq(s, i + 1, i + Len(sub)) = sub

\* str.split(sep) for a one-character separator: the sequence of the pieces
\* between the separators (n separators give n + 1 pieces).
split(s, sep) ==
  LET at == { i \in 1..Len(s) : CharAt(s, i) = sep }
      Before(i) == Max({ k \in at : k < i } \cup {0})
      Ends == at \cup { Len(s) + 1 }
      Nth(n) == CHOOSE e \in Ends : Cardinality({ k \in at : k < e }) = n - 1
  IN [ n \in 1..(Cardinality(at) + 1) |-> SubSeq(s, Before(Nth(n)) + 1, Nth(n) - 1) ]

\* sep.join(pieces).
RECURSIVE join(_, _)
join(pieces, sep) ==
  IF pieces = <<>> THEN ""
  ELSE IF Len(pieces) = 1 THEN Head(pieces)
  ELSE Head(pieces) \o sep \o join(Tail(pieces), sep)

\* The characters of s that are not in chars, in order.
RECURSIVE RemoveChars(_, _)
RemoveChars(s, chars) ==
  IF Len(s) = 0 THEN ""
  ELSE IF Len(s) = 1 THEN (IF s \in chars THEN "" ELSE s)
  ELSE RemoveChars(SubSeq(s, 1, Len(s) \div 2), chars)
       \o RemoveChars(SubSeq(s, Len(s) \div 2 + 1, Len(s)), chars)

\* The positions of s at which the literal `name' stands, letter case ignored.
Occurrences(s, name) ==
  LET low == lower(s)
      n == lower(name)
  IN { i \in 1..(Len(s) - Len(n) + 1) : SubSeq(low, i, i + Len(n) - 1) = n }

\* ------------------------------------------------------------ File Scanner
\* The content of a directory is the set of the files below it, each a path
\* of names from the directory down: << "app", "build.gradle" >> is
\* app/build.gradle.  `order' is the order in which a directory listing gives
\* names (os.walk leaves it to the file system).

\* str.endswith(suffix).
endswith(s, suffix) ==
  Len(s) >= Len(suffix) /\ SubSeq(s, Len(s) - Len(suffix) + 1, Len(s)) = suffix

IsPrefix(p, q) == Len(p) <= Len(q) /\ SubSeq(q, 1, Len(p)) = p

\* The names of S as the listing orders them.
Listed(S, order) == SelectSeq(order, LAMBDA n : n \in S)

\* Two listing orders of the names that occur, one the reverse of the other.
ListingNames ==
  << "app", "build", "build.gradle", ".github", "builds", "gradle.properties",
     "build.gradle.bak", "build.gradle.kts", "tmp.gradle", "generated.gradle",
     ".gradle", "README.md" >>

Reverse(seq) == [ i \in 1..Len(seq) |-> seq[Len(seq) + 1 - i] ]

ListingOrders == { ListingNames, Reverse(ListingNames) }

\* The walk without pruning.
KeepDir_All(d) == TRUE

\* dirs[:] = [d for d in dirs if not d.startswith('.') and d != 'build'].
KeepDir(d) == ~startswith(d, ".") /\ d # "build"

\* file.endswith('.gradle') or file.endswith('.gradle.kts') or
\* file == 'gradle.properties'.
IsGradleFile(file) ==
  endswith(file, ".gradle") \/ endswith(file, ".gradle.kts")
    \/ file = "gradle.properties"

\* for root, dirs, files in os.walk(repo_dir), from directory `root' on:
\* the descriptor files of root, then the walk of each kept directory.
RECURSIVE Walk(_, _, _, _), WalkEach(_, _, _, _, _)
Walk(dir, tree, root, order) ==
  LET below == { p \in tree : IsPrefix(root, p) /\ Len(p) > Len(root) }
      files == { p[Len(root) + 1] : p \in { q \in below : Len(q) = Len(root) + 1 } }
      dirs == { p[Len(root) + 1] : p \in { q \in below : Len(q) > Len(root) + 1 } }
      found == Listed({ f \in files : IsGradleFile(f) }, order)
      kept == Listed({ d \in dirs : KeepDir(d) }, order)
  IN [ i \in 1..Len(found) |->
         JoinPath(dir, join(root \o << found[i] >>, "/")) ]
     \o WalkEach(dir, tree, root, kept, order)

WalkEach(dir, tree, root, dirs, order) ==
  IF dirs = <<>> THEN <<>>
  ELSE Walk(dir, tree, root \o << Head(dirs) >>, order)
       \o WalkEach(dir, tree, root, Tail(dirs), order)

identify_gradle_files(dir, tree, order) ==
  Walk(dir, tree, <<>>, order)

\* zip_ref.extractall(repo_dir): the files of the archive below its wrapper.
Extracted(files) == { << Wrapper >> \o p : p \in files }

\* The hoist left out: the files stay below the wrapper.
Hoist_None(tree) == tree

\* extracted_dirs = the directories in repo_dir; if there is one, the entries
\* of the first are moved up one level and it is removed.  (An archive of
\* GitHub has one directory at its top and nothing else.)
Hoist(tree) ==
  LET extracted_dirs == { p[1] : p \in { q \in tree : Len(q) > 1 } }
  IN IF extracted_dirs = {} THEN tree
     ELSE LET actual_repo_dir == CHOOSE d \in extracted_dirs : TRUE
          IN { Tail(p) : p \in { q \in tree : Len(q) > 1 /\ q[1] = actual_repo_dir } }
             \cup { p \in tree : Len(p) = 1 \/ p[1] # actual_repo_dir }

\* ------------------------------------------------------------ Tree Parser

\* re.sub(r'[+\-\\\|\s]+', '', line).
TreeChars == {"+", "-", "\\", "|"} \cup Whitespace
clean_tree_line(line) == RemoveChars(line, TreeChars)

\* re.search(r'([^:]+):([^:]+):([^:\s]+)', clean_line) on a text without
\* whitespace: the leftmost three consecutive non-empty pieces between colons.
\* None, or <<group_id, artifact_id, version>>.
search_dep_pattern(clean_line) ==
  LET pieces == split(clean_line, ":")
      at == { i \in 1..(Len(pieces) - 2) :
                pieces[i] # "" /\ pieces[i + 1] # "" /\ pieces[i + 2] # "" }
  IN IF at = {} THEN None
     ELSE LET i == Min(at) IN << pieces[i], pieces[i + 1], pieces[i + 2] >>

\* None, or <<the DependencyMatch of the line>>.
extract_dependency_info_from_line_RawLine(line, dependency_name, configuration, current_path) ==
  LET m == search_dep_pattern(line)
  IN IF m = None THEN None
     ELSE LET full_name == m[1] \o ":" \o m[2]
          IN IF \/ contains(lower(dependency_name), lower(full_name))
                \/ contains(lower(dependency_name), lower(m[2]))
             THEN Some(DependencyMatch("gradle_tree_" \o configuration, m[3],
                                       None, None, << full_name >>, strip(line)))
             ELSE None

extract_dependency_info_from_line(line, dependency_name, configuration, current_path) ==
  LET clean_line == clean_tree_line(line)
      m == search_dep_pattern(clean_line)
  IN IF m = None THEN None
     ELSE LET group_id == m[1]
              artifact_id == m[2]
              version == m[3]
              full_name == group_id \o ":" \o artifact_id
              indent_level == Len(line) - Len(lstrip(line))
              transitive == indent_level > 0 /\ current_path # <<>>
          IN IF \/ contains(lower(dependency_name), lower(full_name))
                \/ contains(lower(dependency_name), lower(artifact_id))
             THEN Some(DependencyMatch(
                         "gradle_tree_" \o configuration,
                         version,
                         IF transitive THEN Some(current_path[Len(current_path)]) ELSE None,
                         None,
                         IF transitive THEN current_path \o << full_name >>
                                       ELSE << full_name >>,
                         strip(line)))
             ELSE None

\* The loop of parse_dependency_tree over the lines that are left.
\* current_path is assigned [] before the loop and never changed.
RECURSIVE ParseLines(_, _, _, _)
ParseLines(lines, dependency_name, configuration, current_path) ==
  IF lines = <<>> THEN <<>>
  ELSE LET line == Head(lines)
           rest == ParseLines(Tail(lines), dependency_name, configuration,
                              current_path)
       IN IF strip(line) = "" \/ startswith(line, "----") THEN rest
          ELSE IF contains(lower(dependency_name), lower(line))
          THEN extract_dependency_info_from_line(line, dependency_name,
                                                 configuration, current_path) \o rest
          ELSE rest

parse_dependency_tree(tree_output, dependency_name, configuration) ==
  ParseLines(split(tree_output, "\n"), dependency_name, configuration, <<>>)

\* ----------------------------------------------- Static Declaration Scanner

\* The assignment pattern with the quotes inside its group.
MatchAssignmentAt_KeepQuotes(line, i, name) ==
  LET eq == Scan(line, i + Len(name), Whitespace, FALSE)
      open == Scan(line, eq + 1, Whitespace, FALSE)
      close == Scan(line, open + 1, Quotes, TRUE)
  IN IF eq > Len(line) \/ CharAt(line, eq) # "=" THEN None
     ELSE IF open > Len(line) \/ CharAt(line, open) \notin Quotes THEN None
     ELSE IF close > Len(line) \/ close = open + 1 THEN None
     ELSE Some(SubSeq(line, open, close))

\* <name>\s*=\s*['"]([^'"]+)['"]  matched from position i, where <name>
\* stands: None, or <<the text between the quotes>>.
MatchAssignmentAt(line, i, name) ==
  LET eq == Scan(line, i + Len(name), Whitespace, FALSE)
      open == Scan(line, eq + 1, Whitespace, FALSE)
      close == Scan(line, open + 1, Quotes, TRUE)
  IN IF eq > Len(line) \/ CharAt(line, eq) # "=" THEN None
     ELSE IF open > Len(line) \/ CharAt(line, open) \notin Quotes THEN None
     ELSE IF close > Len(line) \/ close = open + 1 THEN None
     ELSE Some(SubSeq(line, open + 1, close - 1))

\* (<name>[^:]*):([^:]*):([^\s'"]+)  matched from position i, where <name>
\* stands: None, or <<group, artifact, version>>.
MatchCoordinatesAt(line, i, name) ==
  LET c1 == Scan(line, i + Len(name), {":"}, TRUE)
      c2 == Scan(line, c1 + 1, {":"}, TRUE)
      end == Scan(line, c2 + 1, Whitespace \cup Quotes, TRUE)
  IN IF c1 > Len(line) \/ c2 > Len(line) \/ end = c2 + 1 THEN None
     ELSE << SubSeq(line, i, c1 - 1), SubSeq(line, c1 + 1, c2 - 1),
             SubSeq(line, c2 + 1, end - 1) >>

\* re.search(pattern, line, re.IGNORECASE) for version_patterns[k]: the match
\* at the leftmost position that has one.  None, or the groups.
search_version_pattern(k, line, dependency_name) ==
  LET name == IF k = 1 THEN dependency_name \o "Version" ELSE dependency_name
      MatchAt(i) == IF k = 3 THEN MatchCoordinatesAt(line, i, name)
                             ELSE MatchAssignmentAt(line, i, name)
      at == { i \in Occurrences(line, name) : MatchAt(i) # None }
  IN IF at = {} THEN None ELSE MatchAt(Min(at))

\* `for pattern in version_patterns' on one line, from pattern k on: every
\* pattern that matches appends a match (the loop has no break).
RECURSIVE ScanLinePatterns(_, _, _, _, _)
ScanLinePatterns(k, line, line_num, dependency_name, relative_path) ==
  IF k > 3 THEN <<>>
  ELSE LET groups == search_version_pattern(k, line, dependency_name)
           line_context == "Line " \o ToString(line_num) \o ": " \o strip(line)
           rest == ScanLinePatterns(k + 1, line, line_num, dependency_name,
                                    relative_path)
       IN IF groups = None THEN rest
          ELSE IF Len(groups) = 1
          THEN << DependencyMatch(relative_path, groups[1], None, None,
                                  << dependency_name \o ":" \o groups[1] >>,
                                  line_context) >> \o rest
          ELSE << DependencyMatch(relative_path, groups[3], None, None,
                                  << groups[1] \o ":" \o groups[2] >>,
                                  line_context) >> \o rest

\* `for line_num, line in enumerate(lines, 1)' from line line_num on.
RECURSIVE ScanLines(_, _, _, _)
ScanLines(lines, line_num, dependency_name, relative_path) ==
  IF lines = <<>> THEN <<>>
  ELSE ScanLinePatterns(1, Head(lines), line_num, dependency_name, relative_path)
       \o ScanLines(Tail(lines), line_num + 1, dependency_name, relative_path)

\* What open(gradle_file).read() gives: None when it raises (I/O or decoding
\* error), else <<the text>>.
ReadableTexts ==
  { "rootProject.name = 'sample'",
    "ext {\n    httpclientVersion = \"4.5.13\"\n}" }
FileReads == {None} \cup { Some(text) : text \in ReadableTexts }

\* analyze_gradle_files_directly with the try around the whole loop: the
\* first file that cannot be read ends the scan.
RECURSIVE analyze_gradle_files_directly_AbortOnError(_, _, _, _)
analyze_gradle_files_directly_AbortOnError(files, reads, dependency_name, dir) ==
  IF files = <<>> \/ Head(reads) = None THEN <<>>
  ELSE ScanLines(split(Head(reads)[1], "\n"), 1, dependency_name,
                 RelPath(Head(files), dir))
       \o analyze_gradle_files_directly_AbortOnError(Tail(files), Tail(reads),
                                                     dependency_name, dir)

\* reads[i] is what reading files[i] gives.
RECURSIVE analyze_gradle_files_directly(_, _, _, _)
analyze_gradle_files_directly(files, reads, dependency_name, dir) ==
  IF files = <<>> THEN <<>>
  ELSE LET rest == analyze_gradle_files_directly(Tail(files), Tail(reads),
                                                 dependency_name, dir)
       IN IF Head(reads) = None THEN rest
          ELSE ScanLines(split(Head(reads)[1], "\n"), 1, dependency_name,
                         RelPath(Head(files), dir)) \o rest

\* ------------------------------------------------------------ Match Merger

\* Python truthiness of an Optional[str].
Truthy(opt) == opt # None /\ opt[1] # ""

\* key = f"{match.file_path}_{match.current_version}".
MatchKey(match) == match.file_path \o "_" \o match.current_version

\* The merge taking the later path also when it is as long as the stored one.
MergeInto_LongerOrEqual(existing, match) ==
  [ existing EXCEPT
      !.parent_dependency =
          IF Truthy(match.parent_dependency) /\ ~Truthy(existing.parent_dependency)
          THEN match.parent_dependency ELSE @,
      !.parent_version =
          IF Truthy(match.parent_version) /\ ~Truthy(existing.parent_version)
          THEN match.parent_version ELSE @,
      !.dependency_path =
          IF Len(match.dependency_path) >= Len(existing.dependency_path)
          THEN match.dependency_path ELSE @ ]

\* The merge of one later duplicate into the record already stored under its key.
MergeInto(existing, match) ==
  [ existing EXCEPT
      !.parent_dependency =
          IF Truthy(match.parent_dependency) /\ ~Truthy(existing.parent_dependency)
          THEN match.parent_dependency ELSE @,
      !.parent_version =
          IF Truthy(match.parent_version) /\ ~Truthy(existing.parent_version)
          THEN match.parent_version ELSE @,
      !.dependency_path =
          IF Len(match.dependency_path) > Len(existing.dependency_path)
          THEN match.dependency_path ELSE @ ]

\* The loop with new keys put in front of the stored ones.
RECURSIVE MergeLoop_NewestFirst(_, _)
MergeLoop_NewestFirst(unique_matches, todo) ==
  IF todo = <<>> THEN unique_matches
  ELSE LET match == Head(todo)
           hit == { i \in 1..Len(unique_matches) :
                      MatchKey(unique_matches[i]) = MatchKey(match) }
       IN IF hit = {}
          THEN MergeLoop_NewestFirst(<< match >> \o unique_matches, Tail(todo))
          ELSE LET i == CHOOSE k \in hit : TRUE
               IN MergeLoop_NewestFirst(
                    [unique_matches EXCEPT ![i] = MergeInto(@, match)], Tail(todo))

\* unique_matches is an insertion-ordered dict: a sequence of records with
\* pairwise different keys.
RECURSIVE MergeLoop(_, _)
MergeLoop(unique_matches, todo) ==
  IF todo = <<>> THEN unique_matches
  ELSE LET match == Head(todo)
           hit == { i \in 1..Len(unique_matches) :
                      MatchKey(unique_matches[i]) = MatchKey(match) }
       IN IF hit = {}
          THEN MergeLoop(Append(unique_matches, match), Tail(todo))
          ELSE LET i == CHOOSE k \in hit : TRUE
               IN MergeLoop([unique_matches EXCEPT ![i] = MergeInto(@, match)],
                            Tail(todo))

merge_duplicate_matches(ms) == MergeLoop(<<>>, ms)

\* ------------------------------------------------- background task steps

\* An assignment to one field of the record run_analysis holds (result is
\* the object stored in jobs_storage, so the store sees the write).
SetField(j, field, value) ==
  jobs_storage' = [jobs_storage EXCEPT ![j] = [@ EXCEPT ![field] = value]]

Goto(j, label) == pc' = [pc EXCEPT ![j] = label]

\* run_analysis starts: start_time = time.time(), result = jobs_storage[job_id],
\* repo_dir = None.  The answers of the handlers that ran before are sent.
Begin(j) ==
  /\ pc[j] = "scheduled"
  /\ running = {}
  /\ running' = {j}
  /\ response' = NoResponse
  /\ \E t \in Clock : start_time' = [start_time EXCEPT ![j] = t]
  /\ repo_dir' = [repo_dir EXCEPT ![j] = None]
  /\ Goto(j, "request_main")
  /\ UNCHANGED << jobs_storage, gradle_files, matches, config, exc, http_status,
                  fs, content, history,
                  world, requests, file_matches >>

\* clone_repository falling back to master on a network error as well.
RequestMain_FallbackOnError(j) ==
  /\ pc[j] = "request_main"
  /\ \E o \in HttpOutcomes :
       /\ requests' = [requests EXCEPT ![j] = Append(@, << "main", o >>)]
       /\ http_status' = [http_status EXCEPT ![j] = o]
       /\ Goto(j, IF o # "200" THEN "request_master" ELSE "check_status")
  /\ UNCHANGED << jobs_storage, running, response, start_time, repo_dir,
                  gradle_files, matches, config, exc, fs, content, cleanup_calls, invoked,
                  fetch_result, files_scanned, archive, world, file_matches >>

\* clone_repository: requests.get(.../zipball/main).
RequestMain(j) ==
  /\ pc[j] = "request_main"
  /\ \E o \in HttpOutcomes :
       /\ requests' = [requests EXCEPT ![j] = Append(@, << "main", o >>)]
       /\ IF o = "neterror"
          THEN /\ exc' = [exc EXCEPT ![j] = Some(NetworkErrorMessage)]
               /\ fetch_result' = [fetch_result EXCEPT ![j] = NetworkErrorMessage]
               /\ Goto(j, "clone_except")
               /\ UNCHANGED http_status
          ELSE /\ http_status' = [http_status EXCEPT ![j] = o]
               /\ Goto(j, IF o # "200" THEN "request_master" ELSE "check_status")
               /\ UNCHANGED << exc, fetch_result >>
  /\ UNCHANGED << jobs_storage, running, response, start_time, repo_dir,
                  gradle_files, matches, config, fs, content, cleanup_calls, invoked,
                  files_scanned, archive, world, file_matches >>

\* clone_repository: requests.get(.../zipball/master), after a non-200 answer.
RequestMaster(j) ==
  /\ pc[j] = "request_master"
  /\ \E o \in HttpOutcomes :
       /\ requests' = [requests EXCEPT ![j] = Append(@, << "master", o >>)]
       /\ IF o = "neterror"
          THEN /\ exc' = [exc EXCEPT ![j] = Some(NetworkErrorMessage)]
               /\ fetch_result' = [fetch_result EXCEPT ![j] = NetworkErrorMessage]
               /\ Goto(j, "clone_except")
               /\ UNCHANGED http_status
          ELSE /\ http_status' = [http_status EXCEPT ![j] = o]
               /\ Goto(j, "check_status")
               /\ UNCHANGED << exc, fetch_result >>
  /\ UNCHANGED << jobs_storage, running, response, start_time, repo_dir,
                  gradle_files, matches, config, fs, content, cleanup_calls, invoked,
                  files_scanned, archive, world, file_matches >>

\* clone_repository: if response.status_code == 200, extract the archive and
\* hoist the nested folder; else raise.  A corrupt archive is either rejected
\* when it is opened (nothing on disk) or fails during extractall; shutil.move
\* raises when an entry has the name of the wrapper.  In both cases a partial
\* directory is on disk, which nothing reads before it is removed.
ExtractOrRaise(j) ==
  /\ pc[j] = "check_status"
  /\ IF http_status[j] = "200"
     THEN \E z \in {"ok", "badzip", "partial"} :
            /\ fs' = IF z = "badzip" THEN fs ELSE fs \cup {RepoDirOf(j)}
            /\ IF z = "ok"
               THEN /\ \E files \in RepoArchives :
                         /\ content' = [content EXCEPT ![RepoDirOf(j)] =
                                          Hoist(Extracted(files))]
                         /\ archive' = [archive EXCEPT ![j] = Some(files)]
                    /\ repo_dir' = [repo_dir EXCEPT ![j] = Some(RepoDirOf(j))]
                    /\ fetch_result' = [fetch_result EXCEPT ![j] = "ok"]
                    /\ Goto(j, "identify")
                    /\ UNCHANGED exc
               ELSE /\ exc' = [exc EXCEPT ![j] = Some(BadZipMessage)]
                    /\ fetch_result' = [fetch_result EXCEPT ![j] = BadZipMessage]
                    /\ Goto(j, "clone_except")
                    /\ UNCHANGED << repo_dir, content, archive >>
     ELSE /\ exc' = [exc EXCEPT ![j] = Some(HttpErrorMessage(http_status[j]))]
          /\ fetch_result' = [fetch_result EXCEPT ![j] = HttpErrorMessage(http_status[j])]
          /\ Goto(j, "clone_except")
          /\ UNCHANGED << fs, content, archive, repo_dir >>
  /\ UNCHANGED << jobs_storage, running, response, start_time, gradle_files,
                  matches, config, http_status, cleanup_calls, invoked,
                  files_scanned,
                  world, requests, file_matches >>

\* The except block re-raising without removing what was extracted.
CloneExcept_KeepDirectory(j) ==
  /\ pc[j] = "clone_except"
  /\ requests' = [requests EXCEPT ![j] = <<>>]
  /\ Goto(j, "except_status")
  /\ UNCHANGED << jobs_storage, running, response, start_time, repo_dir,
                  gradle_files, matches, config, exc, http_status, file_matches,
                  fs, content, history, world >>

\* clone_repository's except block: remove the directory if it exists, re-raise.
\* run_analysis's repo_dir stays None; the call of clone_repository is over.
CloneExcept(j) ==
  /\ pc[j] = "clone_except"
  /\ fs' = fs \ {RepoDirOf(j)}
  /\ content' = [content EXCEPT ![RepoDirOf(j)] = {}]
  /\ requests' = [requests EXCEPT ![j] = <<>>]
  /\ Goto(j, "except_status")
  /\ UNCHANGED << jobs_storage, running, response, start_time, repo_dir,
                  gradle_files, matches, config, exc, http_status, file_matches,
                  history, world >>

\* gradle_files = analyzer.identify_gradle_files(repo_dir).  (The call of
\* clone_repository is over: its request log is dropped.)
IdentifyGradleFiles(j) ==
  /\ pc[j] = "identify"
  /\ requests' = [requests EXCEPT ![j] = <<>>]
  /\ \E order \in ListingOrders :
       LET found == identify_gradle_files(repo_dir[j][1], content[repo_dir[j][1]],
                                          order)
       IN /\ gradle_files' = [gradle_files EXCEPT ![j] = found]
          /\ files_scanned' = [files_scanned EXCEPT ![j] = Some(Len(found))]
  /\ Goto(j, "write_files")
  /\ UNCHANGED << jobs_storage, running, response, start_time, repo_dir, matches,
                  config, exc, http_status, fs, content, cleanup_calls, invoked,
                  fetch_result, archive, world, file_matches >>

\* WriteGradleFiles leaving result.gradle_files_found as it was created.
WriteGradleFiles_NotWritten(j) ==
  /\ pc[j] = "write_files"
  /\ Goto(j, "check_files")
  /\ UNCHANGED << jobs_storage, running, response, locals, fs, content, history,
                  world >>

\* result.gradle_files_found = [os.path.relpath(f, repo_dir) for f in gradle_files].
WriteGradleFiles(j) ==
  /\ pc[j] = "write_files"
  /\ SetField(j, "gradle_files_found", MapRelPath(gradle_files[j], repo_dir[j][1]))
  /\ Goto(j, "check_files")
  /\ UNCHANGED << running, response, locals, fs, content, history,
                  world >>

\* CheckFiles writing "completed" as soon as the scan is done, before the
\* analysis that can still raise.
CheckFiles_EarlyStatus(j) ==
  /\ pc[j] = "check_files"
  /\ SetField(j, "status", "completed")
  /\ Goto(j, IF gradle_files[j] = <<>> THEN "nofiles_error" ELSE "select_tool")
  /\ UNCHANGED << running, response, locals, fs, content, history,
                  world >>

\* CheckFiles without the early return: an empty scan goes on to the analysis.
CheckFiles_NoEarlyReturn(j) ==
  /\ pc[j] = "check_files"
  /\ Goto(j, "select_tool")
  /\ UNCHANGED << jobs_storage, running, response, locals, fs, content, history,
                  world >>

\* if not gradle_files: result.status = "completed" ...
CheckFiles(j) ==
  /\ pc[j] = "check_files"
  /\ IF gradle_files[j] = <<>>
     THEN /\ SetField(j, "status", "completed")
          /\ Goto(j, "nofiles_error")
     ELSE /\ Goto(j, "select_tool")
          /\ UNCHANGED jobs_storage
  /\ UNCHANGED << running, response, locals, fs, content, history,
                  world >>

\* ... result.error = "No Gradle files found in repository"; return.
NoFilesError(j) ==
  /\ pc[j] = "nofiles_error"
  /\ SetField(j, "error", Some(NoGradleMessage))
  /\ Goto(j, "finally")
  /\ UNCHANGED << running, response, locals, fs, content, history,
                  world >>

\* The calls the task makes to the Tree Parser and to the Static Declaration
\* Scanner, with their results: the task's steps look the result of a call up.
\* What the File Scanner can return in a fetched repository, as paths
\* relative to its root.
RepoContents ==
  { MapRelPath(identify_gradle_files(dir, Hoist(Extracted(files)), order), dir)
      : dir \in RepoDirs, files \in RepoArchives, order \in ListingOrders }

TreeParses ==
  [ t \in ToolOutputs, d \in DependencyNames, c \in Range(configurations) |->
      parse_dependency_tree(t, d, c) ]

ScanCalls ==
  UNION { { << MapJoinPath(dir, rels), reads, d, dir >> :
              reads \in [1..Len(rels) -> FileReads] } :
          dir \in RepoDirs, rels \in RepoContents, d \in DependencyNames }

FileScans ==
  [ a \in ScanCalls |-> analyze_gradle_files_directly(a[1], a[2], a[3], a[4]) ]

\* analyze_gradle_dependencies: pick gradlew (os.chmod, outside any try) or the
\* system gradle.  An exception of os.chmod propagates to run_analysis.
SelectTool(j) ==
  /\ pc[j] = "select_tool"
  /\ \E chmod_ok \in BOOLEAN :
       IF chmod_ok
       THEN /\ matches' = [matches EXCEPT ![j] = <<>>]
            /\ config' = [config EXCEPT ![j] = 1]
            /\ Goto(j, "run_config")
            /\ UNCHANGED exc
       ELSE /\ exc' = [exc EXCEPT ![j] = Some(SetupErrorMessage)]
            /\ Goto(j, "except_status")
            /\ UNCHANGED << matches, config >>
  /\ UNCHANGED << jobs_storage, running, response, start_time, repo_dir,
                  gradle_files, http_status, fs, content, history,
                  world, requests, file_matches >>

\* The loop with one try around it: the first configuration that fails ends it.
RunConfiguration_AbortOnFailure(j) ==
  /\ pc[j] = "run_config"
  /\ invoked' = [invoked EXCEPT ![j] = Append(@, configurations[config[j]])]
  /\ \E o \in tool_outcomes[configurations[config[j]]] :
       /\ matches' = [matches EXCEPT ![j] =
                        IF o = "ok"
                        THEN @ \o TreeParses[stdout,
                                    jobs_storage[j].dependency_name,
                                    configurations[config[j]]]
                        ELSE @]
       /\ IF o = "ok" /\ config[j] < Len(configurations)
          THEN /\ config' = [config EXCEPT ![j] = @ + 1]
               /\ UNCHANGED pc
          ELSE /\ Goto(j, "scan_files")
               /\ UNCHANGED config
  /\ UNCHANGED << jobs_storage, running, response, start_time, repo_dir,
                  gradle_files, exc, http_status, fs, content, cleanup_calls,
                  fetch_result, files_scanned, archive, world, requests, file_matches >>

\* One iteration of `for config in configurations': subprocess.run, and on
\* exit code 0 the Tree Parser; every failure is logged and skipped.
RunConfiguration(j) ==
  /\ pc[j] = "run_config"
  /\ invoked' = [invoked EXCEPT ![j] = Append(@, configurations[config[j]])]
  /\ \E o \in tool_outcomes[configurations[config[j]]] :
       matches' = [matches EXCEPT ![j] =
                     IF o = "ok"
                     THEN @ \o TreeParses[stdout,
                                 jobs_storage[j].dependency_name,
                                 configurations[config[j]]]
                     ELSE @]
  /\ IF config[j] < Len(configurations)
     THEN /\ config' = [config EXCEPT ![j] = @ + 1]
          /\ UNCHANGED pc
     ELSE /\ Goto(j, "scan_files")
          /\ UNCHANGED config
  /\ UNCHANGED << jobs_storage, running, response, start_time, repo_dir,
                  gradle_files, exc, http_status, fs, content, cleanup_calls,
                  fetch_result, files_scanned, archive, world, requests, file_matches >>

\* file_matches = analyze_gradle_files_directly(...); matches.extend(file_matches);
\* unique_matches = merge_duplicate_matches(matches); return unique_matches.
ScanFilesAndMerge(j) ==
  /\ pc[j] = "scan_files"
  /\ \E reads \in [1..Len(gradle_files[j]) -> FileReads] :
       LET found == FileScans[<< gradle_files[j], reads,
                                  jobs_storage[j].dependency_name, repo_dir[j][1] >>]
       IN /\ file_matches' = [file_matches EXCEPT ![j] = found]
          /\ matches' = [matches EXCEPT ![j] = merge_duplicate_matches(@ \o found)]
  /\ Goto(j, "write_matches")
  /\ UNCHANGED << jobs_storage, running, response, start_time, repo_dir,
                  gradle_files, config, exc, http_status, fs, content, history,
                  world, requests >>

\* result.matches = matches.
WriteMatches(j) ==
  /\ pc[j] = "write_matches"
  /\ SetField(j, "matches", matches[j])
  /\ Goto(j, "write_completed")
  /\ UNCHANGED << running, response, locals, fs, content, history,
                  world >>

\* WriteCompleted raising instead of writing: the except block then runs with
\* result.matches already written.
WriteCompleted_Raises(j) ==
  /\ pc[j] = "write_completed"
  /\ exc' = [exc EXCEPT ![j] = Some(SetupErrorMessage)]
  /\ Goto(j, "except_status")
  /\ UNCHANGED << jobs_storage, running, response, start_time, repo_dir,
                  gradle_files, matches, config, http_status, fs, content,
                  history, world, requests, file_matches >>

\* result.status = "completed".
WriteCompleted(j) ==
  /\ pc[j] = "write_completed"
  /\ SetField(j, "status", "completed")
  /\ Goto(j, "write_time")
  /\ UNCHANGED << running, response, locals, fs, content, history,
                  world >>

\* result.analysis_time_seconds = time.time() - start_time.
WriteTime(j) ==
  /\ pc[j] = "write_time"
  /\ \E t \in Clock :
       /\ t >= start_time[j]
       /\ SetField(j, "analysis_time_seconds", Some(t - start_time[j]))
  /\ Goto(j, "finally")
  /\ UNCHANGED << running, response, locals, fs, content, history,
                  world >>

\* The except block only logging the exception: status is left as it is.
ExceptStatus_LogOnly(j) ==
  /\ pc[j] = "except_status"
  /\ Goto(j, "except_error")
  /\ UNCHANGED << jobs_storage, running, response, locals, fs, content, history,
                  world >>

\* The except block marking every job that is still processing as failed.
ExceptStatus_FailAll(j) ==
  /\ pc[j] = "except_status"
  /\ jobs_storage' = [k \in DOMAIN jobs_storage |->
                        IF jobs_storage[k].status = "processing"
                        THEN [jobs_storage[k] EXCEPT !.status = "failed"]
                        ELSE jobs_storage[k]]
  /\ Goto(j, "except_error")
  /\ UNCHANGED << running, response, locals, fs, content, history,
                  world >>

\* except Exception as e: result.status = "failed".
ExceptStatus(j) ==
  /\ pc[j] = "except_status"
  /\ SetField(j, "status", "failed")
  /\ Goto(j, "except_error")
  /\ UNCHANGED << running, response, locals, fs, content, history,
                  world >>

\* ExceptError storing a fixed text instead of str(e).
ExceptError_Generic(j) ==
  /\ pc[j] = "except_error"
  /\ SetField(j, "error", Some("Analysis failed"))
  /\ Goto(j, "except_time")
  /\ UNCHANGED << running, response, locals, fs, content, history,
                  world >>

\* ExceptError also resetting the partial results of the failed job.
ExceptError_ResetResults(j) ==
  /\ pc[j] = "except_error"
  /\ jobs_storage' = [jobs_storage EXCEPT ![j] =
                        [@ EXCEPT !.error = exc[j], !.gradle_files_found = <<>>]]
  /\ Goto(j, "except_time")
  /\ UNCHANGED << running, response, locals, fs, content, history,
                  world >>

\* The except block without `result.error = str(e)'.
ExceptError_NotRecorded(j) ==
  /\ pc[j] = "except_error"
  /\ Goto(j, "except_time")
  /\ UNCHANGED << jobs_storage, running, response, locals, fs, content, history,
                  world >>

\* result.error = str(e).
ExceptError(j) ==
  /\ pc[j] = "except_error"
  /\ SetField(j, "error", exc[j])
  /\ Goto(j, "except_time")
  /\ UNCHANGED << running, response, locals, fs, content, history,
                  world >>

\* result.analysis_time_seconds = time.time() - start_time.
ExceptTime(j) ==
  /\ pc[j] = "except_time"
  /\ \E t \in Clock :
       /\ t >= start_time[j]
       /\ SetField(j, "analysis_time_seconds", Some(t - start_time[j]))
  /\ Goto(j, "finally")
  /\ UNCHANGED << running, response, locals, fs, content, history,
                  world >>

\* cleanup_repository(repo_dir): rmtree if the directory exists.  (Its except
\* block only logs; rmtree is taken to succeed, as in clone_repository.)
cleanup_repository(j, dir) ==
  /\ cleanup_calls' = [cleanup_calls EXCEPT ![j] = @ + 1]
  /\ fs' = IF dir \in fs THEN fs \ {dir} ELSE fs
  /\ content' = IF dir \in fs THEN [content EXCEPT ![dir] = {}] ELSE content

\* The task ends: it gives the event loop back and its locals are gone.
EndTask(j) ==
  /\ Goto(j, "done")
  /\ running' = {}
  /\ start_time' = [start_time EXCEPT ![j] = 0]
  /\ repo_dir' = [repo_dir EXCEPT ![j] = None]
  /\ gradle_files' = [gradle_files EXCEPT ![j] = <<>>]
  /\ matches' = [matches EXCEPT ![j] = <<>>]
  /\ config' = [config EXCEPT ![j] = 1]
  /\ exc' = [exc EXCEPT ![j] = None]
  /\ http_status' = [http_status EXCEPT ![j] = "none"]
  /\ requests' = [requests EXCEPT ![j] = <<>>]
  /\ file_matches' = [file_matches EXCEPT ![j] = <<>>]

\* The finally block without its `if repo_dir' guard: cleanup_repository is
\* called on every path (with None its os.path.exists raises, which its own
\* except swallows).
Finally_Unguarded(j) ==
  /\ pc[j] = "finally"
  /\ IF repo_dir[j] # None
     THEN cleanup_repository(j, repo_dir[j][1])
     ELSE /\ cleanup_calls' = [cleanup_calls EXCEPT ![j] = @ + 1]
          /\ UNCHANGED << fs, content >>
  /\ EndTask(j)
  /\ UNCHANGED << jobs_storage, response, invoked, fetch_result, files_scanned, archive,
                  world >>

\* finally: if repo_dir: analyzer.cleanup_repository(repo_dir).
Finally(j) ==
  /\ pc[j] = "finally"
  /\ IF repo_dir[j] # None
     THEN cleanup_repository(j, repo_dir[j][1])
     ELSE UNCHANGED << cleanup_calls, fs, content >>
  /\ EndTask(j)
  /\ UNCHANGED << jobs_storage, response, invoked, fetch_result, files_scanned, archive,
                  world >>

\* One step of the background task of job j.
run_analysis(j) ==
  \/ Begin(j)
  \/ RequestMain(j)
  \/ RequestMaster(j)
  \/ ExtractOrRaise(j)
  \/ CloneExcept(j)
  \/ IdentifyGradleFiles(j)
  \/ WriteGradleFiles(j)
  \/ CheckFiles(j)
  \/ NoFilesError(j)
  \/ SelectTool(j)
  \/ RunConfiguration(j)
  \/ ScanFilesAndMerge(j)
  \/ WriteMatches(j)
  \/ WriteCompleted(j)
  \/ WriteTime(j)
  \/ ExceptStatus(j)
  \/ ExceptError(j)
  \/ ExceptTime(j)
  \/ Finally(j)

Next ==
  \/ \E r \in Repositories, d \in DependencyNames : start_analysis(r, d)
  \/ \E id \in JobIds : get_analysis_status(id)
  \/ \E j \in JobIds : run_analysis(j)

Spec == Init /\ [][Next]_vars

\* The event loop runs every task it has been given and every step of the
\* task that holds it: downloads and subprocesses return or time out.
FairSpec == Spec /\ \A j \in JobIds : WF_vars(run_analysis(j))

\* The service in front of repositories whose dependency tree names the
\* target, and in which a configuration either always runs to exit code 0 or
\* always fails (in one of the three ways).
ToolWorlds == [ Range(configurations) -> { {"ok"}, ToolOutcomes \ {"ok"} } ]

TargetTreeInit ==
  /\ StartState
  /\ stdout = TargetTree
  /\ tool_outcomes \in ToolWorlds
  /\ call = NoCall
  /\ ret = None

TargetTreeSpec == TargetTreeInit /\ [][Next]_vars

\* ------------------------------------------- the components on their own
\* One call of a component of DependencyAnalyzer with arguments drawn from
\* the sets below; the service itself stays in its start state.

SeqsUpTo(S, n) == UNION { [1..k -> S] : k \in 0..n }

\* Arguments of merge_duplicate_matches.  "lib" with version "1_0" and "lib_1"
\* with version "0" are different files and versions.  The records of
\* ("lib", "0") differ in what a duplicate can contribute: a parent, a parent
\* version, a longer path, another path of the same length; line_context
\* tells the records apart.
MatchInputs ==
  { DependencyMatch("lib", "0", None, None, << "org.x:lib" >>, "Line 1: a"),
    DependencyMatch("lib", "0", Some("org.x:parent"), None,
                    << "org.x:parent", "org.x:lib" >>, "Line 2: b"),
    DependencyMatch("lib", "0", None, Some("2.0"),
                    << "org.y:other", "org.x:lib" >>, "Line 3: c"),
    DependencyMatch("lib", "0", Some("org.y:other"), Some("3.0"),
                    << "lib:0" >>, "Line 4: d"),
    DependencyMatch("lib", "1_0", None, None, << "org.x:lib" >>, "Line 5: e"),
    DependencyMatch("lib", "1_0", Some("org.x:parent"), Some("2.0"),
                    << "org.x:parent", "org.x:lib" >>, "Line 6: f"),
    DependencyMatch("lib_1", "0", None, None, << "org.x:lib" >>, "Line 7: g"),
    DependencyMatch("lib_1", "0", Some("org.x:parent"), Some("2.0"),
                    << "org.x:parent", "org.x:lib" >>, "Line 8: h") }

\* Lines of tool output: blank, a separator, the target at the root, the
\* target below another entry, an entry that is not the target.
PlainTreeLines ==
  { "",
    "------------------------------------------------------------",
    "+--- org.apache.httpcomponents:httpclient:4.5.13",
    "     \\--- org.apache.httpcomponents:httpclient:4.5.13",
    "+--- org.slf4j:slf4j-api:1.7.36" }

\* And entries with a '-' in the artifact and in the version.
TreeLineInputs ==
  PlainTreeLines \cup
  { "+--- commons-httpclient:commons-httpclient:3.1",
    "+--- org.apache.httpcomponents:httpclient:5.0-beta1" }

\* Names the Tree Parser is asked for: one without and one with a '-'.
ParserNames == DependencyNames \cup {"slf4j-api"}

\* What reading a descriptor file gives: an error (None), or a text.
ScannerTexts ==
  ReadableTexts \cup
  { "implementation 'commons-httpclient:commons-httpclient:3.1'",
    "def httpclient = \"org.apache.httpcomponents:httpclient:4.5.13\"",
    "apacheHTTPClientVersion = \"4.5.13\"" }
ScannerReads == {None} \cup { Some(text) : text \in ScannerTexts }

\* Names the Static Declaration Scanner is asked for: an artifact, and the
\* name of a version variable (as test.py asks).
ScannerNames == DependencyNames \cup {"apacheHTTPClientVersion"}

ScannerDir == << "/tmp/gradle_analysis", "prasadrg98/sample", 1 >>

\* The first k descriptor files of a multi-module repository, as the File
\* Scanner returns them.
ScannerFiles(k) ==
  MapJoinPath(ScannerDir,
              [ i \in 1..k |-> IF i = 1 THEN "build.gradle"
                               ELSE "module" \o ToString(i) \o "/build.gradle" ])

\* Files of a fetched repository: descriptors in the root and in a module, a
\* file that only looks like one, files below build output (at the root and
\* in a module) and below a hidden directory, and a file named .gradle.
ScannerPaths ==
  { << "build.gradle" >>,
    << "gradle.properties" >>,
    << "build.gradle.bak" >>,
    << "app", "build.gradle.kts" >>,
    << "app", "build", "tmp.gradle" >>,
    << "build", "generated.gradle" >>,
    << ".github", "gradle.properties" >>,
    << "builds", ".gradle" >> }

ScannerContents ==
  { files \in SUBSET ScannerPaths : Cardinality(files) <= MaxFiles }

Calls ==
  { [ op |-> "merge_duplicate_matches", matches |-> ms ]
      : ms \in SeqsUpTo(MatchInputs, MaxMatches) }
  \cup
  { [ op |-> "parse_dependency_tree", tree_output |-> join(lines, "\n"),
      lines |-> lines, dependency_name |-> d, configuration |-> c ]
      : lines \in SeqsUpTo(TreeLineInputs, MaxLines),
        d \in ParserNames, c \in Range(configurations) }
  \cup
  { [ op |-> "analyze_gradle_files_directly", gradle_files |-> ScannerFiles(Len(reads)),
      reads |-> reads, dependency_name |-> d, repo_dir |-> ScannerDir ]
      : reads \in SeqsUpTo(ScannerReads, MaxFiles), d \in ScannerNames }
  \cup
  { [ op |-> "identify_gradle_files", repo_dir |-> ScannerDir,
      content |-> files, order |-> order ]
      : files \in ScannerContents, order \in ListingOrders }

Called(op) == call.op = op /\ ret # None

Call_merge_duplicate_matches ==
  /\ call.op = "merge_duplicate_matches"
  /\ ret = None
  /\ ret' = Some(merge_duplicate_matches(call.matches))
  /\ UNCHANGED << jobs_storage, pc, running, response, locals, fs, content, history,
                  stdout, tool_outcomes, call >>

Call_parse_dependency_tree ==
  /\ call.op = "parse_dependency_tree"
  /\ ret = None
  /\ ret' = Some(parse_dependency_tree(call.tree_output, call.dependency_name,
                                       call.configuration))
  /\ UNCHANGED << jobs_storage, pc, running, response, locals, fs, content, history,
                  stdout, tool_outcomes, call >>

Call_analyze_gradle_files_directly ==
  /\ call.op = "analyze_gradle_files_directly"
  /\ ret = None
  /\ ret' = Some(analyze_gradle_files_directly(call.gradle_files, call.reads,
                                               call.dependency_name, call.repo_dir))
  /\ UNCHANGED << jobs_storage, pc, running, response, locals, fs, content, history,
                  stdout, tool_outcomes, call >>

Call_identify_gradle_files ==
  /\ call.op = "identify_gradle_files"
  /\ ret = None
  /\ ret' = Some(identify_gradle_files(call.repo_dir, call.content, call.order))
  /\ UNCHANGED << jobs_storage, pc, running, response, locals, fs, content, history,
                  stdout, tool_outcomes, call >>

ComponentInit ==
  /\ StartState
  /\ stdout = PlainTree
  /\ tool_outcomes = [c \in Range(configurations) |-> ToolOutcomes]
  /\ call \in Calls
  /\ ret = None

ComponentNext ==
  \/ Call_merge_duplicate_matches
  \/ Call_parse_dependency_tree
  \/ Call_analyze_gradle_files_directly
  \/ Call_identify_gradle_files

ComponentSpec == ComponentInit /\ [][ComponentNext]_vars

\* ----------------------------------------------------------------- claims

Terminal == {"completed", "failed"}
Ended(j) == pc[j] = "done"
FetchFailed(j) == fetch_result[j] \notin {"pending", "ok"}

\* C1: the status of a job changes at most once, from "processing" to
\* "completed" or "failed"; a terminal status never changes again.
C1_StatusChangesAtMostOnce ==
  [][\A j \in DOMAIN jobs_storage :
       j \in DOMAIN jobs_storage' =>
         /\ jobs_storage[j].status \in Terminal =>
              jobs_storage'[j].status = jobs_storage[j].status
         /\ jobs_storage'[j].status # jobs_storage[j].status =>
              /\ jobs_storage[j].status = "processing"
              /\ jobs_storage'[j].status \in Terminal]_vars

\* A job that failed during the analysis, after its scan had found files, and
\* has ended.
C1_Witness ==
  \E j \in DOMAIN jobs_storage :
    /\ Ended(j)
    /\ jobs_storage[j].status = "failed"
    /\ jobs_storage[j].gradle_files_found # <<>>

\* C2 (as claimed): when run_analysis has finished, analysis_time_seconds is
\* set and non-negative, whatever the terminal status and the path.
C2_TimeSetWhenFinished ==
  \A j \in DOMAIN jobs_storage :
    Ended(j) =>
      /\ jobs_storage[j].analysis_time_seconds # None
      /\ jobs_storage[j].analysis_time_seconds[1] >= 0

\* C3 (as claimed): on every path of run_analysis cleanup_repository is
\* invoked exactly once.
C3_CleanupExactlyOnce ==
  \A j \in JobIds : Ended(j) => cleanup_calls[j] = 1

\* C3 (amended): cleanup_repository is never invoked twice; a task that has
\* ended has invoked it exactly once if clone_repository returned, and not at
\* all if the fetch failed.
C3_CleanupOnceAfterFetch ==
  \A j \in JobIds :
    /\ cleanup_calls[j] <= 1
    /\ Ended(j) => cleanup_calls[j] = (IF fetch_result[j] = "ok" THEN 1 ELSE 0)

\* One job ended after a failed fetch and another after a successful one.
C3_Witness ==
  \E j, k \in JobIds :
    /\ Ended(j) /\ FetchFailed(j) /\ cleanup_calls[j] = 0
    /\ Ended(k) /\ fetch_result[k] = "ok" /\ cleanup_calls[k] = 1

\* C4 (as claimed): once the terminal status is stored, no field of the
\* record is written again.
C4_ReadOnlyAfterTerminalStatus ==
  [][\A j \in DOMAIN jobs_storage :
       (j \in DOMAIN jobs_storage' /\ jobs_storage[j].status \in Terminal) =>
         jobs_storage'[j] = jobs_storage[j]]_vars

\* C4 (amended): once the task has ended the record never changes; between
\* the write of the terminal status and the end of the task only error and
\* analysis_time_seconds are written, each only while it is still unset.
C4_ReadOnlyAfterTaskEnds ==
  [][\A j \in DOMAIN jobs_storage :
       j \in DOMAIN jobs_storage' =>
         /\ Ended(j) => jobs_storage'[j] = jobs_storage[j]
         /\ jobs_storage[j].status \in Terminal =>
              /\ jobs_storage'[j].status = jobs_storage[j].status
              /\ jobs_storage'[j].matches = jobs_storage[j].matches
              /\ jobs_storage'[j].gradle_files_found = jobs_storage[j].gradle_files_found
              /\ jobs_storage'[j].repository = jobs_storage[j].repository
              /\ jobs_storage'[j].dependency_name = jobs_storage[j].dependency_name
              /\ jobs_storage'[j].job_id = jobs_storage[j].job_id
              /\ jobs_storage'[j].error # jobs_storage[j].error =>
                   jobs_storage[j].error = None
              /\ jobs_storage'[j].analysis_time_seconds # jobs_storage[j].analysis_time_seconds =>
                   jobs_storage[j].analysis_time_seconds = None]_vars

\* A job that has ended with all three late fields written, while another
\* task is past its own status write.
C4_Witness ==
  \E j, k \in DOMAIN jobs_storage :
    /\ Ended(j)
    /\ jobs_storage[j].status = "failed"
    /\ jobs_storage[j].error # None
    /\ jobs_storage[j].analysis_time_seconds # None
    /\ pc[k] = "finally"
    /\ jobs_storage[k].status = "completed"

\* C5: POST /analyze inserts, under a job_id not in the store, a record with
\* status "processing" and empty gradle_files_found and matches, and answers
\* with that job_id and "processing" before any step of the background task;
\* every job_id that was returned is a key of the store.
C5_AnalyzeInsertsProcessingJob ==
  [][ /\ (response' # response /\ response'.kind = "analyze") =>
           LET id == response'.job_id
           IN /\ id \notin DOMAIN jobs_storage
              /\ id \in DOMAIN jobs_storage'
              /\ jobs_storage'[id].job_id = id
              /\ jobs_storage'[id].status = "processing"
              /\ jobs_storage'[id].gradle_files_found = <<>>
              /\ jobs_storage'[id].matches = <<>>
              /\ response'.code = 200
              /\ response'.status = "processing"
              /\ pc[id] = "none"
              /\ pc'[id] = "scheduled"
              /\ running' = {}
      /\ \A id \in JobIds : pc'[id] # "none" => id \in DOMAIN jobs_storage'
    ]_vars

\* A second job is accepted after the first one has ended.
C5_Witness ==
  /\ response.kind = "analyze"
  /\ response.job_id # 1
  /\ pc[response.job_id] = "scheduled"
  /\ Ended(1)

\* C6: every accepted job eventually has a terminal status.
C6_EveryJobTerminates ==
  \A j \in JobIds :
    (j \in DOMAIN jobs_storage /\ jobs_storage[j].status = "processing")
      ~> (j \in DOMAIN jobs_storage /\ jobs_storage[j].status \in Terminal)

\* Every job of the behaviour was accepted and has ended, one of them failed.
C6_Witness ==
  /\ \A j \in JobIds : Ended(j) /\ jobs_storage[j].status \in Terminal
  /\ \E j \in JobIds : jobs_storage[j].status = "failed"

\* C7: GET /status/{job_id} answers 404 exactly when job_id is not a key of
\* the store, answers a known job_id with the stored record, and leaves the
\* store unchanged.
C7_StatusLookup ==
  [][(response' # response /\ response'.kind = "status") =>
       LET id == response'.job_id
       IN /\ (response'.code = 404) <=> (id \notin DOMAIN jobs_storage)
          /\ id \in DOMAIN jobs_storage =>
               /\ response'.code = 200
               /\ response'.body = jobs_storage[id]
          /\ jobs_storage' = jobs_storage]_vars

\* A poll of an unknown job_id is answered 404 while another job is known
\* and still processing.
C7_Witness ==
  /\ response.kind = "status"
  /\ response.code = 404
  /\ \E k \in DOMAIN jobs_storage : jobs_storage[k].status = "processing"

\* C8: the set of job ids of the store only grows.
C8_JobsNeverDeleted ==
  [][DOMAIN jobs_storage \subseteq DOMAIN jobs_storage']_vars

\* A job that has ended and was cleaned up is polled successfully after a
\* later job was accepted.
C8_Witness ==
  /\ response.kind = "status"
  /\ response.code = 200
  /\ Ended(response.job_id)
  /\ cleanup_calls[response.job_id] = 1
  /\ \E k \in DOMAIN jobs_storage : k # response.job_id

\* C9: when the fetch succeeded and the File Scanner found no descriptor
\* file, the build tool is never run for the job, and the job ends
\* "completed" with empty gradle_files_found and matches and the error text
\* "No Gradle files found in repository".
C9_NoDescriptorFiles ==
  \A j \in DOMAIN jobs_storage :
    files_scanned[j] = Some(0) =>
      /\ invoked[j] = <<>>
      /\ jobs_storage[j].status # "failed"
      /\ Ended(j) =>
           /\ jobs_storage[j].status = "completed"
           /\ jobs_storage[j].gradle_files_found = <<>>
           /\ jobs_storage[j].matches = <<>>
           /\ jobs_storage[j].error = Some(NoGradleMessage)

\* A job has ended after a scan that found nothing.
C9_Witness ==
  \E j \in DOMAIN jobs_storage :
    Ended(j) /\ fetch_result[j] = "ok" /\ files_scanned[j] = Some(0)

\* C10: a job whose fetch failed ends "failed" with the message of the
\* exception clone_repository raised as error; the answer of POST /analyze
\* is the normal "processing" one.
C10_FetchFailureFailsJob ==
  /\ \A j \in DOMAIN jobs_storage :
       (Ended(j) /\ FetchFailed(j)) =>
         /\ jobs_storage[j].status = "failed"
         /\ jobs_storage[j].error = Some(fetch_result[j])
  /\ response.kind = "analyze" =>
       /\ response.code = 200
       /\ response.status = "processing"

\* One job ended after both branches answered non-200, another after a
\* corrupt archive.
C10_Witness ==
  \E j, k \in DOMAIN jobs_storage :
    /\ Ended(j) /\ fetch_result[j] = HttpErrorMessage("404")
    /\ Ended(k) /\ fetch_result[k] = BadZipMessage

\* C11: once a job's background task has ended, the job's scratch directory
\* no longer exists, whether the fetch failed (clone_repository removes what
\* it created) or succeeded (the cleanup step removes it).
C11_ScratchDirectoryRemoved ==
  \A j \in DOMAIN jobs_storage : Ended(j) => RepoDirOf(j) \notin fs

\* Two jobs have ended: one after a successful fetch, one whose archive could
\* not be extracted.
C11_Witness ==
  \E j, k \in DOMAIN jobs_storage :
    /\ Ended(j) /\ fetch_result[j] = "ok"
    /\ Ended(k) /\ fetch_result[k] = BadZipMessage

Last(seq) == seq[Len(seq)]

\* "main" is requested first, "master" only after a non-200 response to
\* "main", and nothing after that.
RequestOrder(log) ==
  /\ Len(log) <= 2
  /\ Len(log) >= 1 => log[1][1] = "main"
  /\ Len(log) = 2 => /\ log[2][1] = "master"
                     /\ log[1][2] \notin {"200", "neterror"}

\* clone_repository has returned (pc "identify") or raised (pc "clone_except").
FetchOver(j) == pc[j] \in {"identify", "clone_except"}

\* C12 (as claimed): the Archive Fetcher requests "main" first and "master"
\* only after a non-200 response, makes at most two requests, none twice, and
\* succeeds exactly when the last request made returned 200.
C12_FetchSucceedsIffLast200 ==
  \A j \in JobIds :
    /\ RequestOrder(requests[j])
    /\ FetchOver(j) =>
         (fetch_result[j] = "ok" <=> Last(requests[j])[2] = "200")

\* C12 (amended): the same order and bound on the requests; the fetch succeeds
\* only if the last request made returned 200, and after a 200 it fails
\* exactly when the archive cannot be extracted.
C12_FetchOrderAndSuccess ==
  \A j \in JobIds :
    /\ RequestOrder(requests[j])
    /\ FetchOver(j) =>
         /\ requests[j] # <<>>
         /\ pc[j] = "identify" <=> fetch_result[j] = "ok"
         /\ fetch_result[j] = "ok" => Last(requests[j])[2] = "200"
         /\ (Last(requests[j])[2] = "200" /\ fetch_result[j] # "ok") =>
              fetch_result[j] = BadZipMessage
         /\ Last(requests[j])[2] = "404" =>
              /\ Len(requests[j]) = 2
              /\ fetch_result[j] = HttpErrorMessage("404")
         /\ Last(requests[j])[2] = "neterror" =>
              fetch_result[j] = NetworkErrorMessage

\* A fetch that succeeded on "master" after a non-200 answer for "main".
C12_Witness ==
  \E j \in JobIds :
    /\ pc[j] = "identify"
    /\ requests[j] = << << "main", "404" >>, << "master", "200" >> >>

\* A record with the file_path and current_version of m is in ms.
HasMatch(ms, m) ==
  \E i \in 1..Len(ms) : /\ ms[i].file_path = m.file_path
                         /\ ms[i].current_version = m.current_version

\* What the Tree Parser returns for the output of a configuration.
TreeMatches ==
  [ t \in ToolOutputs |-> [ d \in DependencyNames |-> [ c \in Range(configurations) |->
      parse_dependency_tree(t, d, c) ] ] ]

\* The record of job j holds the tree matches of every configuration that
\* runs to exit code 0, and none of a configuration that fails.
TreeMatchesKept(j) ==
  \A c \in Range(configurations) :
    LET expected == TreeMatches[stdout][jobs_storage[j].dependency_name][c]
        kept == jobs_storage[j].matches
    IN /\ tool_outcomes[c] = {"ok"} =>
            \A i \in 1..Len(expected) : HasMatch(kept, expected[i])
       /\ "ok" \notin tool_outcomes[c] =>
            \A i \in 1..Len(kept) : kept[i].file_path # "gradle_tree_" \o c

\* The analysis of job j has returned and its result is in the record.
AnalysisReturned(j) ==
  /\ pc[j] \in {"write_completed", "write_time", "finally"}
  /\ invoked[j] # <<>>

FoundFiles(j) == files_scanned[j] # None /\ files_scanned[j][1] >= 1

RECURSIVE ScanEachReadable(_, _, _, _)
ScanEachReadable(files, reads, dependency_name, dir) ==
  IF files = <<>> THEN <<>>
  ELSE (IF Head(reads) = None THEN <<>>
        ELSE analyze_gradle_files_directly(<< Head(files) >>, << Head(reads) >>,
                                           dependency_name, dir))
       \o ScanEachReadable(Tail(files), Tail(reads), dependency_name, dir)

\* C14: in the Static Declaration Scanner a descriptor file that cannot be
\* read contributes no matches and does not end the scan: the matches of every
\* other file, before and after it, are returned.
C14_UnreadableFileSkipped ==
  Called("analyze_gradle_files_directly") =>
    ret[1] = ScanEachReadable(call.gradle_files, call.reads,
                              call.dependency_name, call.repo_dir)

\* Three files, the second unreadable, the first and the third with a
\* declaration: both declarations are returned.
C14_Witness ==
  /\ Called("analyze_gradle_files_directly")
  /\ Len(call.reads) = 3
  /\ call.reads[1] # None /\ call.reads[2] = None /\ call.reads[3] # None
  /\ Len(ret[1]) >= 2
  /\ ret[1][1].file_path = "build.gradle"
  /\ ret[1][Len(ret[1])].file_path = "module3/build.gradle"

Pairs(ms) == { << ms[i].file_path, ms[i].current_version >> : i \in 1..Len(ms) }

\* C15 (as claimed): the Match Merger merges two matches if and only if they
\* have equal file_path and equal current_version: the result has one record
\* for each pair (file_path, current_version) of the input.
C15_MergeKeyIsPair ==
  Called("merge_duplicate_matches") =>
    /\ Len(ret[1]) = Cardinality(Pairs(call.matches))
    /\ Pairs(ret[1]) = Pairs(call.matches)

\* C16: merge_duplicate_matches is idempotent: merging its result again gives
\* the same list, in the same order, with the same field values.
C16_MergeIdempotent ==
  Called("merge_duplicate_matches") =>
    merge_duplicate_matches(ret[1]) = ret[1]

\* Three matches were merged into two records, one of which is none of the
\* inputs (a later duplicate has changed it).
C16_Witness ==
  /\ Called("merge_duplicate_matches")
  /\ Len(call.matches) = 3
  /\ Len(ret[1]) = 2
  /\ \E i \in 1..2 : ret[1][i] \notin Range(call.matches)

\* C17 (as claimed): the merged record of a key (file_path, current_version)
\* has the longest dependency_path of the input matches with that key, and a
\* non-empty parent_dependency if one of them has one.
C17_MergedRecordKeepsBest ==
  Called("merge_duplicate_matches") =>
    \A key \in Pairs(call.matches) :
      LET same == { i \in 1..Len(call.matches) :
                      << call.matches[i].file_path,
                         call.matches[i].current_version >> = key }
          merged == { i \in 1..Len(ret[1]) :
                        << ret[1][i].file_path, ret[1][i].current_version >> = key }
      IN /\ Cardinality(merged) = 1
         /\ \A i \in merged :
              /\ Len(ret[1][i].dependency_path) =
                   Max({ Len(call.matches[k].dependency_path) : k \in same })
              /\ (\E k \in same : Truthy(call.matches[k].parent_dependency)) =>
                   Truthy(ret[1][i].parent_dependency)

TargetRootLine == "+--- org.apache.httpcomponents:httpclient:4.5.13"
TargetIndentedLine == "     \\--- org.apache.httpcomponents:httpclient:4.5.13"
OtherEntryLine == "+--- org.slf4j:slf4j-api:1.7.36"

\* The positions, in order, of the lines of the call that name the target.
RECURSIVE TargetLinesFrom(_)
TargetLinesFrom(i) ==
  IF i > Len(call.lines) THEN <<>>
  ELSE (IF call.lines[i] \in {TargetRootLine, TargetIndentedLine}
        THEN << i >> ELSE <<>>) \o TargetLinesFrom(i + 1)

\* The positions before i of lines that show a dependency.
EntriesBefore(i) ==
  { k \in 1..(i - 1) :
      call.lines[k] \in {TargetRootLine, TargetIndentedLine, OtherEntryLine} }

\* group:artifact as the line of position k shows it.
EntryName(k) ==
  IF call.lines[k] = OtherEntryLine THEN "org.slf4j:slf4j-api"
  ELSE "org.apache.httpcomponents:httpclient"

\* C18 (as claimed): in the Tree Parser a matching line with indentation that
\* follows an earlier dependency line yields a match whose parent_dependency
\* is that immediately prior dependency and whose dependency_path ends with
\* its own group:artifact and has length at least 2; a matching line without
\* indentation yields no parent and dependency_path = [group:artifact].
C18_IndentedMatchHasParent ==
  ( /\ Called("parse_dependency_tree")
    /\ call.dependency_name = "httpclient"
    /\ Range(call.lines) \subseteq PlainTreeLines ) =>
    LET at == TargetLinesFrom(1)
    IN /\ Len(ret[1]) = Len(at)
       /\ \A n \in 1..Len(at) :
            LET i == at[n]
                match == ret[1][n]
            IN IF call.lines[i] = TargetIndentedLine /\ EntriesBefore(i) # {}
               THEN /\ match.parent_dependency = Some(EntryName(Max(EntriesBefore(i))))
                    /\ Len(match.dependency_path) >= 2
                    /\ Last(match.dependency_path) = EntryName(i)
               ELSE call.lines[i] = TargetRootLine =>
                      /\ match.parent_dependency = None
                      /\ match.dependency_path = << EntryName(i) >>

\* C20: for an output that holds the line
\* "+--- org.apache.httpcomponents:httpclient:4.5.13" once, besides blank and
\* separator lines, and the target "httpclient", parse_dependency_tree returns
\* exactly one match: version "4.5.13", path
\* ["org.apache.httpcomponents:httpclient"], file_path
\* "gradle_tree_<configuration>", no parent.
C20_ParsesRootLine ==
  ( /\ Called("parse_dependency_tree")
    /\ call.dependency_name = "httpclient"
    /\ Cardinality({ i \in 1..Len(call.lines) : call.lines[i] = TargetRootLine }) = 1
    /\ \A i \in 1..Len(call.lines) :
         \/ call.lines[i] = TargetRootLine
         \/ strip(call.lines[i]) = ""
         \/ startswith(call.lines[i], "----") )
  => /\ Len(ret[1]) = 1
     /\ ret[1][1].current_version = "4.5.13"
     /\ ret[1][1].dependency_path = << "org.apache.httpcomponents:httpclient" >>
     /\ ret[1][1].file_path = "gradle_tree_" \o call.configuration
     /\ ret[1][1].parent_dependency = None
     /\ ret[1][1].parent_version = None

\* The call with a separator line, a blank line and the target line has
\* returned one match.
C20_Witness ==
  /\ Called("parse_dependency_tree")
  /\ call.lines = << "------------------------------------------------------------",
                     "", TargetRootLine >>
  /\ call.configuration = "runtimeClasspath"
  /\ Len(ret[1]) = 1
  /\ ret[1][1].file_path = "gradle_tree_runtimeClasspath"

\* C19 (as claimed): in the Static Declaration Scanner the first pattern that
\* matches a line wins: a line of a descriptor file gives at most one match.
C19_OneMatchPerLine ==
  Called("analyze_gradle_files_directly") =>
    \A i \in 1..Len(call.reads) :
      call.reads[i] # None =>
        \A n \in 1..Len(split(call.reads[i][1], "\n")) :
          Len(ScanLinePatterns(1, split(call.reads[i][1], "\n")[n], n,
                               call.dependency_name, "build.gradle")) <= 1

\* C21: a descriptor file whose only line is apacheHTTPClientVersion = "4.5.13",
\* scanned for apacheHTTPClientVersion, gives exactly one match: version
\* 4.5.13, file_path the file's path relative to the repository root,
\* line_context 'Line 1: apacheHTTPClientVersion = "4.5.13"'.
VersionVariableLine == "apacheHTTPClientVersion = \"4.5.13\""

VersionVariableCall ==
  /\ Called("analyze_gradle_files_directly")
  /\ call.dependency_name = "apacheHTTPClientVersion"
  /\ call.reads = << Some(VersionVariableLine) >>

C21_VersionVariableMatch ==
  VersionVariableCall =>
    /\ Len(ret[1]) = 1
    /\ ret[1][1].current_version = "4.5.13"
    /\ ret[1][1].file_path = RelPath(call.gradle_files[1], call.repo_dir)
    /\ ret[1][1].file_path = "build.gradle"
    /\ ret[1][1].line_context = "Line 1: " \o VersionVariableLine

C21_Witness ==
  /\ VersionVariableCall
  /\ Len(ret[1]) = 1
  /\ ret[1][1].current_version = "4.5.13"

\* C22: the File Scanner returns exactly the files whose name ends in .gradle
\* or .gradle.kts or is gradle.properties and that have no ancestor directory
\* below the root whose name starts with '.' or is 'build': nothing below a
\* pruned directory is returned, nothing else that qualifies is missed, and
\* no file is returned twice.
DescriptorName(name) ==
  \/ Len(name) >= 7 /\ SubSeq(name, Len(name) - 6, Len(name)) = ".gradle"
  \/ Len(name) >= 11 /\ SubSeq(name, Len(name) - 10, Len(name)) = ".gradle.kts"
  \/ name = "gradle.properties"

PrunedName(name) == SubSeq(name, 1, 1) = "." \/ name = "build"

OutsidePruned(p) == \A i \in 1..(Len(p) - 1) : ~PrunedName(p[i])

Qualifying(files) ==
  { p \in files : DescriptorName(Last(p)) /\ OutsidePruned(p) }

C22_FileScannerExact ==
  Called("identify_gradle_files") =>
    /\ Range(ret[1]) = { << call.repo_dir, join(p, "/") >> : p \in Qualifying(call.content) }
    /\ Len(ret[1]) = Cardinality(Qualifying(call.content))

C22_Witness ==
  /\ Called("identify_gradle_files")
  /\ << "app", "build.gradle.kts" >> \in call.content
  /\ << "app", "build", "tmp.gradle" >> \in call.content
  /\ << ".github", "gradle.properties" >> \in call.content
  /\ Len(ret[1]) = 1

\* C23: once the File Scanner's result is written, a job whose archive was
\* fetched and holds a descriptor file outside pruned directories has a
\* non-empty gradle_files_found, with one entry per file the File Scanner
\* returned, each the file's path relative to the hoisted repository root
\* (the names below the wrapper folder, joined by '/').
FilesWritten(j) == archive[j] # None /\ pc[j] \notin {"identify", "write_files"}

C23_FoundFilesRelative ==
  \A j \in DOMAIN jobs_storage :
    (FilesWritten(j) /\ Qualifying(archive[j][1]) # {}) =>
      LET found == jobs_storage[j].gradle_files_found
      IN /\ found # <<>>
         /\ files_scanned[j] = Some(Len(found))
         /\ Range(found) = { join(p, "/") : p \in Qualifying(archive[j][1]) }

C23_Witness ==
  \E j \in DOMAIN jobs_storage :
    /\ Ended(j)
    /\ archive[j] # None
    /\ << "app", "build.gradle.kts" >> \in archive[j][1]
    /\ Len(jobs_storage[j].gradle_files_found) = 2

\* C24: jobs never share a scratch directory, also when they are for the same
\* repository: the directories of two jobs differ, and a step changes (creates,
\* fills, removes) only the directory of the job whose task takes the step, so
\* no cleanup touches what another job in flight uses.
DirState(dir) == << dir \in fs, content[dir] >>

C25_OneWriterPerRecord ==
  [][\A k \in DOMAIN jobs_storage :
       /\ k \in DOMAIN jobs_storage'
       /\ jobs_storage'[k] # jobs_storage[k] => running = {k}]_vars

\* The task of j has written its record while the record of k, accepted
\* before, is still as POST /analyze made it.
C25_Witness ==
  \E j, k \in DOMAIN jobs_storage :
    /\ j # k
    /\ running = {j}
    /\ jobs_storage[j].status \in Terminal
    /\ jobs_storage[k] = AnalysisResult(jobs_storage[k].repository,
                                        jobs_storage[k].dependency_name, k)

\* C26: merge_duplicate_matches gives one record per key, in the order in
\* which the keys first occur.  The record of a key is the first match with
\* that key (so it keeps its line_context), with parent_dependency and
\* parent_version taken from the first later duplicate that has one where the
\* first match has none, and with the first path of the greatest length (a
\* later path replaces an earlier one only when it is strictly longer).
FirstSeen(ms) ==
  { i \in 1..Len(ms) : \A h \in 1..(i - 1) : MatchKey(ms[h]) # MatchKey(ms[i]) }

Later(ms, f) == { i \in (f + 1)..Len(ms) : MatchKey(ms[i]) = MatchKey(ms[f]) }

Filled(ms, f, field) ==
  LET givers == { i \in Later(ms, f) : ms[i][field] # None /\ ms[i][field] # << "" >> }
  IN IF (ms[f][field] # None /\ ms[f][field] # << "" >>) \/ givers = {}
     THEN ms[f][field]
     ELSE ms[Min(givers)][field]

LongestFirst(ms, f) ==
  LET group == {f} \cup Later(ms, f)
      longest == { i \in group : \A k \in group :
                     Len(ms[k].dependency_path) <= Len(ms[i].dependency_path) }
  IN ms[Min(longest)].dependency_path

EntryOf ==
  [ line \in TreeLineInputs \ {"", "------------------------------------------------------------"} |->
      IF line = "+--- org.slf4j:slf4j-api:1.7.36"
      THEN << "org.slf4j", "slf4j-api", "1.7.36" >>
      ELSE IF line = "+--- commons-httpclient:commons-httpclient:3.1"
      THEN << "commons-httpclient", "commons-httpclient", "3.1" >>
      ELSE IF line = "+--- org.apache.httpcomponents:httpclient:5.0-beta1"
      THEN << "org.apache.httpcomponents", "httpclient", "5.0-beta1" >>
      ELSE << "org.apache.httpcomponents", "httpclient", "4.5.13" >> ]

C27_EntryAsWritten ==
  Called("parse_dependency_tree") =>
    \A i \in 1..Len(call.lines) :
      ( /\ call.lines[i] \in DOMAIN EntryOf
        /\ contains(lower(call.dependency_name), lower(EntryOf[call.lines[i]][2])) )
      => \E n \in 1..Len(ret[1]) :
           /\ ret[1][n].line_context = strip(call.lines[i])
           /\ ret[1][n].current_version = EntryOf[call.lines[i]][3]
           /\ Last(ret[1][n].dependency_path) =
                EntryOf[call.lines[i]][1] \o ":" \o EntryOf[call.lines[i]][2]

\* C28: when the task of a job has ended, error fits status: a failed job has
\* an error; a completed job with descriptor files has none; a completed job
\* with an error has the error "No Gradle files found in repository" and an
\* empty gradle_files_found.
C28_ErrorFitsStatus ==
  \A j \in DOMAIN jobs_storage :
    Ended(j) =>
      LET result == jobs_storage[j]
      IN /\ result.status = "failed" => result.error # None
         /\ (result.status = "completed" /\ result.gradle_files_found # <<>>) =>
              result.error = None
         /\ (result.status = "completed" /\ result.error # None) =>
              /\ result.error = Some("No Gradle files found in repository")
              /\ result.gradle_files_found = <<>>

\* One job has failed after its descriptor files were found, another was
\* completed for want of descriptor files.
C28_Witness ==
  \E j, k \in DOMAIN jobs_storage :
    /\ Ended(j) /\ Ended(k)
    /\ jobs_storage[j].status = "failed"
    /\ jobs_storage[j].gradle_files_found # <<>>
    /\ jobs_storage[j].error # None
    /\ jobs_storage[k].status = "completed"
    /\ jobs_storage[k].error = Some(NoGradleMessage)

\* C29: in every reachable state a job whose status is "failed" has no matches:
\* matches is written only on the path that ends in "completed".
C29_FailedHasNoMatches ==
  \A j \in DOMAIN jobs_storage :
    jobs_storage[j].status = "failed" => jobs_storage[j].matches = <<>>

\* One job has failed in the build-tool setup, after its descriptor files were
\* found, and another in the fetch; neither record has matches.
C29_Witness ==
  \E j, k \in DOMAIN jobs_storage :
    /\ jobs_storage[j].status = "failed"
    /\ jobs_storage[j].error = Some(SetupErrorMessage)
    /\ jobs_storage[j].gradle_files_found # <<>>
    /\ jobs_storage[j].matches = <<>>
    /\ jobs_storage[k].status = "failed"
    /\ jobs_storage[k].error # Some(SetupErrorMessage)
    /\ jobs_storage[k].gradle_files_found = <<>>
    /\ jobs_storage[k].matches = <<>>

\* C30: in every reachable state of every job, non-empty matches imply a
\* non-empty gradle_files_found; gradle_files_found changes at most once, from
\* empty and before the build tool has run for the job, and matches changes at
\* most once, from empty and only when gradle_files_found is non-empty.
C30_MatchesImplyFiles ==
  /\ [](\A j \in DOMAIN jobs_storage :
          jobs_storage[j].matches # <<>> => jobs_storage[j].gradle_files_found # <<>>)
  /\ [][\A j \in DOMAIN jobs_storage :
          j \in DOMAIN jobs_storage' =>
            /\ jobs_storage'[j].gradle_files_found # jobs_storage[j].gradle_files_found
                 => /\ jobs_storage[j].gradle_files_found = <<>>
                    /\ jobs_storage[j].matches = <<>>
                    /\ invoked[j] = <<>>
            /\ jobs_storage'[j].matches # jobs_storage[j].matches
                 => /\ jobs_storage[j].matches = <<>>
                    /\ jobs_storage[j].gradle_files_found # <<>>
                    /\ jobs_storage'[j].gradle_files_found
                         = jobs_storage[j].gradle_files_found]_vars

\* A job has completed with matches, after the build tool ran for it, and its
\* record lists the descriptor files.
C30_Witness ==
  \E j \in DOMAIN jobs_storage :
    /\ Ended(j)
    /\ jobs_storage[j].status = "completed"
    /\ jobs_storage[j].matches # <<>>
    /\ jobs_storage[j].gradle_files_found # <<>>
    /\ invoked[j] # <<>>
====
